---- MODULE Spec2Model ----
(***************************************************************************)
(* Model of auto-commit-message (src/index.js): a CLI that reads the       *)
(* staged diff, asks a text-generation service for commit messages, lets   *)
(* the operator choose one at the terminal and commits it.                 *)
(*                                                                         *)
(* JavaScript strings are sequences of one-character strings; the string   *)
(* methods the program uses (trim, split, includes, startsWith, endsWith,  *)
(* toLowerCase, parseInt) are computed on those sequences.                 *)
(***************************************************************************)
EXTENDS Integers, Sequences, FiniteSets, TLC

(***************************************************************************)
(* Bounds of the model.                                                    *)
(***************************************************************************)
\* most lines a generation response is made of
MaxLines == 3
\* most calls of commitChanges made by the CommitExecutor harness
MaxCalls == 2

(***************************************************************************)
(* String methods.  A string is a TLA+ string; Len, SubSeq and \o read it  *)
(* as the sequence of its characters.                                      *)
(***************************************************************************)
\* s.charAt(i - 1)
CharAt(s, i) == SubSeq(s, i, i)

\* white space as String.prototype.trim and parseInt see it
IsSpace(c) == c \in {" ", "\t", "\r", "\n"}

RECURSIVE TrimStart(_)
TrimStart(s) ==
  IF Len(s) = 0 THEN ""
  ELSE IF IsSpace(CharAt(s, 1)) THEN TrimStart(SubSeq(s, 2, Len(s))) ELSE s

RECURSIVE TrimEnd(_)
TrimEnd(s) ==
  IF Len(s) = 0 THEN ""
  ELSE IF IsSpace(CharAt(s, Len(s))) THEN TrimEnd(SubSeq(s, 1, Len(s) - 1))
  ELSE s

\* s.trim()
Trim(s) == TrimEnd(TrimStart(s))

\* s.includes(sub)
Includes(s, sub) ==
  \E i \in 1..(Len(s) - Len(sub) + 1) : SubSeq(s, i, i + Len(sub) - 1) = sub

\* s.startsWith(p)
StartsWith(s, p) == Len(s) >= Len(p) /\ SubSeq(s, 1, Len(p)) = p

\* s.endsWith(p)
EndsWith(s, p) ==
  Len(s) >= Len(p) /\ SubSeq(s, Len(s) - Len(p) + 1, Len(s)) = p

\* s.split("\n"): the pieces between line breaks; "" splits into [""]
RECURSIVE SplitLines(_)
SplitLines(s) ==
  IF \E i \in 1..Len(s) : CharAt(s, i) = "\n"
  THEN LET i == CHOOSE k \in 1..Len(s) :
                  /\ CharAt(s, k) = "\n"
                  /\ \A j \in 1..(k - 1) : CharAt(s, j) # "\n"
       IN  <<SubSeq(s, 1, i - 1)>> \o SplitLines(SubSeq(s, i + 1, Len(s)))
  ELSE <<s>>

\* the response text made of the given lines, one line break between two
RECURSIVE JoinLines(_)
JoinLines(ls) ==
  IF ls = <<>> THEN ""
  ELSE IF Len(ls) = 1 THEN ls[1]
  ELSE ls[1] \o "\n" \o JoinLines(Tail(ls))

UpperCase == "ABCDEFGHIJKLMNOPQRSTUVWXYZ"
LowerCase == "abcdefghijklmnopqrstuvwxyz"

\* the lower-case letter of every upper-case letter
UpperToLower ==
  [c \in {CharAt(UpperCase, i) : i \in 1..Len(UpperCase)} |->
     CharAt(LowerCase, CHOOSE i \in 1..Len(UpperCase) : CharAt(UpperCase, i) = c)]

LowerChar(c) == IF c \in DOMAIN UpperToLower THEN UpperToLower[c] ELSE c

\* s.toLowerCase()
RECURSIVE ToLowerCase(_)
ToLowerCase(s) ==
  IF Len(s) = 0 THEN ""
  ELSE LowerChar(CharAt(s, 1)) \o ToLowerCase(SubSeq(s, 2, Len(s)))

DecimalDigits == "0123456789"

\* the value of every decimal digit
DigitValue ==
  [c \in {CharAt(DecimalDigits, i) : i \in 1..Len(DecimalDigits)} |->
     (CHOOSE i \in 1..Len(DecimalDigits) : CharAt(DecimalDigits, i) = c) - 1]

IsDigit(c) == c \in DOMAIN DigitValue

DigitVal(c) == DigitValue[c]

\* the value of the longest prefix of decimal digits of s, read after acc
RECURSIVE DigitsPrefix(_, _)
DigitsPrefix(s, acc) ==
  IF Len(s) > 0 /\ IsDigit(CharAt(s, 1))
  THEN DigitsPrefix(SubSeq(s, 2, Len(s)), 10 * acc + DigitVal(CharAt(s, 1)))
  ELSE acc

\* Number.NaN: every comparison with it is false
NaN == [nan |-> TRUE, val |-> 0]

\* parseInt(s, 10): leading white space is skipped, then an optional sign,
\* then the longest run of digits; what follows the digits is ignored; NaN
\* when no digit is there
ParseInt(s) ==
  LET t    == TrimStart(s)
      sign == Len(t) > 0 /\ CharAt(t, 1) \in {"-", "+"}
      neg  == Len(t) > 0 /\ CharAt(t, 1) = "-"
      body == IF sign THEN SubSeq(t, 2, Len(t)) ELSE t
  IN  IF Len(body) = 0 \/ ~IsDigit(CharAt(body, 1)) THEN NaN
      ELSE [nan |-> FALSE,
            val |-> IF neg THEN 0 - DigitsPrefix(body, 0)
                    ELSE DigitsPrefix(body, 0)]

(***************************************************************************)
(* Values.                                                                 *)
(***************************************************************************)
\* null / undefined; a value v that may be null is written <<v>>
Null == <<>>

\* the triple-backtick marker (a TLA+ string holds no backquote: the model
\* writes the backquote as ~)
Fence == "~~~"

\* the staged diff text of a repository with staged changes
DiffText == "+x"

\* the files git.status() may list as staged
Files == {"a.js"}

\* lines the text-generation service may answer with, as it sends them
ResponseLines ==
  { "feat(a): x", " fix(b): y\r", "docs(c): z", "fix(b): y~~~", "hi", "  " }

\* the responses of the service: up to MaxLines lines joined by line breaks
Responses ==
  { JoinLines(ls) : ls \in UNION { [1..n -> ResponseLines] : n \in 0..MaxLines } }

\* answers the operator may type at a yes/no prompt
YesNoAnswers == { "y", "Y", "n", "", "yes" }

\* answers the operator may type at the numbered menu
ChoiceAnswers ==
  { "1", "2", "3", "4", "5", "6", "7", "0", "", "abc", "2abc", " 1" }

\* answers the operator may type at the manual-entry prompt
ManualAnswers == { "", "  ", " wip " }

\* failure texts of the version-control operations
GitErrors ==
  { "fatal: not a git repository",
    "nothing to commit, working tree clean",
    "no changes added to commit",
    "Changes not staged for commit:",
    "error: gpg failed to sign the data",
    "gpg: no default secret key",
    "gpg failed to sign the data; nothing to commit",
    "fatal: unable to write new index file" }

(***************************************************************************)
(* State.                                                                  *)
(***************************************************************************)
VARIABLES
  pc,               \* where the run stands
  apiKey,           \* process.env.GEMINI_API_KEY is set
  staged,           \* the repository: files git.status() lists as staged
  stagedDiff,       \* the repository: text of git diff --cached
  diffOutput,       \* getStagedChanges: what git.diff returned, if it did
  diff,             \* main: the result of getStagedChanges
  rawText,          \* generateCommitMessage: response.text(), if it came
  rawLines,         \* generateCommitMessage: suggestions (trimmed lines)
  validSuggestions, \* generateCommitMessage: validSuggestions
  suggestions,      \* main: the result of generateCommitMessage
  commitMessage,    \* selectAndCommit: commitMessage
  useGpg,           \* selectAndCommit: useGpg
  useManual,        \* selectAndCommit: answer to the manual-entry question
  choiceStr,        \* selectAndCommit: answer at the numbered menu
  manualMessage,    \* selectAndCommit: answer at the manual-entry prompt
  confirmCommit,    \* selectAndCommit: answer at the confirmation prompt
  signCommitChoice, \* selectAndCommit: answer at the signing prompt
  message,          \* commitChanges: parameter message
  useGpgSign,       \* commitChanges: parameter useGpgSign
  error,            \* commitChanges: text of the error its catch received
  result,           \* how selection and commit ended
  gitCommitLog,     \* every git.commit invocation: message, options, ok
  stderr,           \* diagnostics written with console.error / console.warn
  genCalls,         \* requests made to the text-generation service
  asked,            \* the operator was asked something
  prompt,           \* the prompt the step just taken put to the operator
  commitCalls,      \* calls of commitChanges
  rlClosed,         \* calls of rl.close()
  exitCode          \* exit code of the process, once it ended

vars ==
  << pc, apiKey, staged, stagedDiff, diffOutput, diff, rawText, rawLines,
     validSuggestions, suggestions, commitMessage, useGpg, useManual,
     choiceStr, manualMessage, confirmCommit, signCommitChoice, message,
     useGpgSign, error, result, gitCommitLog, stderr, genCalls, asked, prompt,
     commitCalls, rlClosed, exitCode >>

repoVars == << staged, stagedDiff >>
fetchVars == << diffOutput, diff >>
genVars == << rawText, rawLines, validSuggestions, suggestions, genCalls >>
selectVars ==
  << commitMessage, useGpg, useManual, choiceStr, manualMessage,
     confirmCommit, signCommitChoice >>
commitVars == << message, useGpgSign, error, gitCommitLog, commitCalls >>
endVars == << rlClosed, exitCode >>

\* the state of everything but the repository and the environment
Fresh ==
  /\ diffOutput = Null /\ diff = Null
  /\ rawText = Null /\ rawLines = <<>> /\ validSuggestions = <<>>
  /\ suggestions = Null
  /\ commitMessage = "" /\ useGpg = FALSE
  /\ useManual = Null /\ choiceStr = Null /\ manualMessage = Null
  /\ confirmCommit = Null /\ signCommitChoice = Null
  /\ error = Null /\ result = "none"
  /\ gitCommitLog = <<>> /\ stderr = <<>>
  /\ genCalls = 0 /\ asked = FALSE /\ prompt = ""
  /\ rlClosed = 0 /\ exitCode = Null

\* the process starts: the module is loaded in some repository state
Init ==
  /\ pc = "load"
  /\ apiKey \in BOOLEAN
  /\ staged \in SUBSET Files
  /\ stagedDiff \in {"", DiffText}
  /\ message = "" /\ useGpgSign = FALSE /\ commitCalls = 0
  /\ Fresh

(***************************************************************************)
(* Start-up and DiffSource.                                                *)
(***************************************************************************)
\* the credential check at module load
LoadModule ==
  /\ pc = "load"
  /\ IF apiKey
     THEN /\ pc' = "main"
          /\ UNCHANGED << stderr, exitCode >>
     ELSE /\ stderr' = Append(stderr, "E_NoApiKey")
          /\ exitCode' = <<1>>
          /\ pc' = "exited"
  /\ UNCHANGED << apiKey, repoVars, fetchVars, genVars, selectVars,
                  commitVars, result, asked, rlClosed >>
  /\ prompt' = ""

\* the diagnostic getStagedChanges' catch prints for an error text
DiffErrorDiagnostic(e) ==
  IF \/ Includes(e, "not a git repository")
     \/ Includes(e, "Direktori ini bukan repositori Git")
  THEN "E_NotRepo"
  ELSE "E_DiffError"

\* if (!diffOutput) return null; return diffOutput
StagedChangesOf(d) == IF d = "" THEN Null ELSE <<d>>

\* GetStagedChanges, were a retrieval failure not caught
GetStagedChanges_NoCatch ==
  /\ pc = "main"
  /\ \E o \in {"revparseFails", "diffReturns"} \cup GitErrors :
       IF o = "diffReturns"
       THEN /\ diffOutput' = <<stagedDiff>>
            /\ diff' = StagedChangesOf(stagedDiff)
            /\ pc' = "mainDiff"
       ELSE /\ pc' = "threw"
            /\ UNCHANGED << diffOutput, diff >>
  /\ UNCHANGED << apiKey, repoVars, genVars, selectVars, commitVars, result,
                  stderr, asked, endVars >>
  /\ prompt' = ""

\* main calls getStagedChanges: git.revparse fails, or git.diff fails with
\* some text, or git.diff returns the staged diff
GetStagedChanges ==
  /\ pc = "main"
  /\ \E o \in {"revparseFails", "diffReturns"} \cup GitErrors :
       IF o = "diffReturns"
       THEN /\ diffOutput' = <<stagedDiff>>
            /\ diff' = StagedChangesOf(stagedDiff)
            /\ UNCHANGED stderr
       ELSE /\ diffOutput' = Null
            /\ diff' = Null
            /\ stderr' = Append(stderr,
                 IF o = "revparseFails"
                 THEN DiffErrorDiagnostic("Direktori ini bukan repositori Git.")
                 ELSE DiffErrorDiagnostic(o))
  /\ pc' = "mainDiff"
  /\ UNCHANGED << apiKey, repoVars, genVars, selectVars, commitVars, result,
                  asked, endVars >>
  /\ prompt' = ""

\* JavaScript truthiness of a string that may be null
Truthy(v) == v # Null /\ v[1] # ""

\* MainDiff, were the generator called whatever diff holds
MainDiff_NoGuard ==
  /\ pc = "mainDiff"
  /\ pc' = "generateCommitMessage"
  /\ UNCHANGED << apiKey, repoVars, fetchVars, genVars, selectVars,
                  commitVars, result, stderr, asked, endVars >>
  /\ prompt' = ""

\* main: if (diff) ... else ...
MainDiff ==
  /\ pc = "mainDiff"
  /\ pc' = IF Truthy(diff) THEN "generateCommitMessage" ELSE "rlClose"
  /\ UNCHANGED << apiKey, repoVars, fetchVars, genVars, selectVars,
                  commitVars, result, stderr, asked, endVars >>
  /\ prompt' = ""

(***************************************************************************)
(* SuggestionGenerator.                                                    *)
(***************************************************************************)
NonEmpty(s) == s # ""

\* TrimmedLines, were the blank lines kept
TrimmedLines_KeepBlank(text) ==
  LET pieces == SplitLines(Trim(text))
  IN  [i \in 1..Len(pieces) |-> Trim(pieces[i])]

\* rawText.trim().split("\n").map((s) => s.trim()).filter((s) => s)
TrimmedLines(text) ==
  LET pieces == SplitLines(Trim(text))
  IN  SelectSeq([i \in 1..Len(pieces) |-> Trim(pieces[i])], NonEmpty)

\* IsValidSuggestion, were the closing fence not looked for
IsValidSuggestion_NoEndFence(s) ==
  /\ Includes(s, ":")
  /\ Includes(s, "(")
  /\ Includes(s, ")")
  /\ ~StartsWith(s, Fence)

\* the format filter of validSuggestions
IsValidSuggestion(s) ==
  /\ Includes(s, ":")
  /\ Includes(s, "(")
  /\ Includes(s, ")")
  /\ ~StartsWith(s, Fence)
  /\ ~EndsWith(s, Fence)

\* SuggestionsOf, were no line returned when none passes the filter
SuggestionsOf_NoFallback(lines) ==
  LET valid == SelectSeq(lines, IsValidSuggestion)
  IN  IF Len(valid) = 0
      THEN [ret |-> Null, warn |-> <<>>]
      ELSE [ret |-> <<valid>>, warn |-> <<>>]

\* what generateCommitMessage returns for the lines of a non-empty response,
\* and the diagnostic it writes to stderr (if any)
SuggestionsOf(lines) ==
  LET valid == SelectSeq(lines, IsValidSuggestion)
  IN  IF Len(valid) = 0 /\ Len(lines) > 0
      THEN [ret |-> <<lines>>, warn |-> <<"W_FormatMismatch">>]
      ELSE IF Len(lines) = 0
      THEN [ret |-> Null, warn |-> <<>>]
      ELSE [ret |-> <<valid>>, warn |-> <<>>]

\* main calls generateCommitMessage(diff): one request, which fails or
\* brings a response text
GenerateCommitMessage ==
  /\ pc = "generateCommitMessage"
  /\ IF ~Truthy(diff)
     THEN /\ suggestions' = Null
          /\ UNCHANGED << rawText, rawLines, validSuggestions, genCalls, stderr >>
     ELSE /\ genCalls' = genCalls + 1
          /\ \E r \in {Null} \cup { <<t>> : t \in Responses } :
               /\ rawText' = r
               /\ IF r = Null
                  THEN /\ stderr' = Append(stderr, "E_GeminiError")
                       /\ suggestions' = Null
                       /\ UNCHANGED << rawLines, validSuggestions >>
                  ELSE IF r[1] = ""
                  THEN /\ stderr' = Append(stderr, "E_NoResponseText")
                       /\ suggestions' = Null
                       /\ UNCHANGED << rawLines, validSuggestions >>
                  ELSE /\ rawLines' = TrimmedLines(r[1])
                       /\ validSuggestions' = SelectSeq(rawLines', IsValidSuggestion)
                       /\ suggestions' = SuggestionsOf(rawLines').ret
                       /\ stderr' = stderr \o SuggestionsOf(rawLines').warn
  /\ pc' = "selectAndCommit"
  /\ UNCHANGED << apiKey, repoVars, fetchVars, selectVars, commitVars, result,
                  asked, endVars >>
  /\ prompt' = ""

(***************************************************************************)
(* SelectionController.                                                    *)
(***************************************************************************)
\* IsYes, were every answer but "n" taken for a yes
IsYes_AnythingButNo(a) == ToLowerCase(a) # "n"

\* answer.toLowerCase() === "y"
IsYes(a) == ToLowerCase(a) = "y"

\* the branch of the menu loop a parsed choice takes with n suggestions
MenuBranch(choice, n) ==
  IF ~choice.nan /\ choice.val >= 1 /\ choice.val <= n THEN "pick"
  ELSE IF ~choice.nan /\ choice.val = n + 1 THEN "manual"
  ELSE IF ~choice.nan /\ choice.val = n + 2 THEN "cancel"
  ELSE "invalid"

\* IsUsableMessage, were the message not trimmed before the test
IsUsableMessage_NoTrim(m) == m # ""

\* manualMessage.trim() is truthy
IsUsableMessage(m) == Trim(m) # ""

\* selectAndCommit(suggestions) starts: no suggestions, or the menu is shown;
\* the locals of generateCommitMessage are gone
SelectAndCommit ==
  /\ pc = "selectAndCommit"
  /\ commitMessage' = ""
  /\ useGpg' = FALSE
  /\ pc' = IF suggestions = Null \/ Len(suggestions[1]) = 0
           THEN "askUseManual" ELSE "askChoice"
  /\ rawText' = Null /\ rawLines' = <<>> /\ validSuggestions' = <<>>
  /\ UNCHANGED << apiKey, repoVars, fetchVars, suggestions, genCalls,
                  useManual, choiceStr, manualMessage, confirmCommit,
                  signCommitChoice, commitVars, result, stderr, asked,
                  endVars >>
  /\ prompt' = ""

\* no suggestions: "write a manual message? (y/n)"
AskUseManual ==
  /\ pc = "askUseManual"
  /\ asked' = TRUE
  /\ prompt' = "useManual"
  /\ \E a \in YesNoAnswers :
       /\ useManual' = <<a>>
       /\ IF IsYes(a)
          THEN pc' = "askManualEmpty" /\ UNCHANGED result
          ELSE pc' = "rlClose" /\ result' = "Cancelled"
  /\ UNCHANGED << apiKey, repoVars, fetchVars, genVars, commitMessage, useGpg,
                  choiceStr, manualMessage, confirmCommit, signCommitChoice,
                  commitVars, stderr, endVars >>

\* no suggestions, manual entry accepted: the message is read once
AskManualEmpty ==
  /\ pc = "askManualEmpty"
  /\ asked' = TRUE
  /\ prompt' = "manual"
  /\ \E m \in ManualAnswers :
       /\ manualMessage' = <<m>>
       /\ IF IsUsableMessage(m)
          THEN /\ commitMessage' = Trim(m)
               /\ pc' = "confirm"
               /\ UNCHANGED result
          ELSE /\ pc' = "rlClose"
               /\ result' = "Cancelled"
               /\ UNCHANGED commitMessage
  /\ UNCHANGED << apiKey, repoVars, fetchVars, genVars, useGpg, useManual,
                  choiceStr, confirmCommit, signCommitChoice, commitVars,
                  stderr, endVars >>

\* AskChoice indexing the list with the number read, not the number less one
AskChoice_OffByOne ==
  /\ pc = "askChoice"
  /\ asked' = TRUE
  /\ prompt' = "choice"
  /\ manualMessage' = Null
  /\ \E c \in ChoiceAnswers :
       LET choice == ParseInt(c)
           branch == MenuBranch(choice, Len(suggestions[1]))
       IN  /\ choiceStr' = <<c>>
           /\ commitMessage' = IF branch = "pick"
                               THEN IF choice.val < Len(suggestions[1])
                                    THEN suggestions[1][choice.val + 1]
                                    ELSE ""
                               ELSE commitMessage
           /\ pc' = CASE branch = "pick"   -> "confirm"
                      [] branch = "manual" -> "askManualMenu"
                      [] branch = "cancel" -> "rlClose"
                      [] OTHER             -> "askChoice"
           /\ result' = IF branch = "cancel" THEN "Cancelled" ELSE result
  /\ UNCHANGED << apiKey, repoVars, fetchVars, genVars, useGpg, useManual,
                  confirmCommit, signCommitChoice, commitVars, stderr,
                  endVars >>

\* one turn of the menu loop: the choice is read and parsed
AskChoice ==
  /\ pc = "askChoice"
  /\ asked' = TRUE
  /\ prompt' = "choice"
  /\ manualMessage' = Null
  /\ \E c \in ChoiceAnswers :
       LET choice == ParseInt(c)
           branch == MenuBranch(choice, Len(suggestions[1]))
       IN  /\ choiceStr' = <<c>>
           /\ commitMessage' = IF branch = "pick"
                               THEN suggestions[1][choice.val]
                               ELSE commitMessage
           /\ pc' = CASE branch = "pick"   -> "confirm"
                      [] branch = "manual" -> "askManualMenu"
                      [] branch = "cancel" -> "rlClose"
                      [] OTHER             -> "askChoice"
           /\ result' = IF branch = "cancel" THEN "Cancelled" ELSE result
  /\ UNCHANGED << apiKey, repoVars, fetchVars, genVars, useGpg, useManual,
                  confirmCommit, signCommitChoice, commitVars, stderr,
                  endVars >>

\* the menu's manual entry: a blank message goes back to the menu
AskManualMenu ==
  /\ pc = "askManualMenu"
  /\ asked' = TRUE
  /\ prompt' = "manual"
  /\ \E m \in ManualAnswers :
       /\ manualMessage' = <<m>>
       /\ IF IsUsableMessage(m)
          THEN commitMessage' = Trim(m) /\ pc' = "confirm"
          ELSE pc' = "askChoice" /\ UNCHANGED commitMessage
  /\ UNCHANGED << apiKey, repoVars, fetchVars, genVars, useGpg, useManual,
                  choiceStr, confirmCommit, signCommitChoice, commitVars,
                  result, stderr, endVars >>

\* a prompt inside the menu loop fails (the input channel has ended): the
\* loop's catch prints a hint and the loop goes on
AskFailsInMenu ==
  /\ pc \in {"askChoice", "askManualMenu"}
  /\ asked' = TRUE
  /\ prompt' = IF pc = "askChoice" THEN "choice" ELSE "manual"
  /\ choiceStr' = IF pc = "askChoice" THEN Null ELSE choiceStr
  /\ manualMessage' = Null
  /\ pc' = "askChoice"
  /\ UNCHANGED << apiKey, repoVars, fetchVars, genVars, commitMessage, useGpg,
                  useManual, confirmCommit, signCommitChoice, commitVars,
                  result, stderr, endVars >>

\* a prompt outside the menu loop fails: the exception leaves selectAndCommit
\* and main
AskFails ==
  /\ pc \in {"askUseManual", "askManualEmpty", "confirm", "sign"}
  /\ pc = "confirm" => commitMessage # ""
  /\ asked' = TRUE
  /\ prompt' = CASE pc = "askUseManual" -> "useManual"
               [] pc = "askManualEmpty" -> "manual"
               [] pc = "confirm" -> "confirm"
               [] OTHER -> "sign"
  /\ pc' = "threw"
  /\ UNCHANGED << apiKey, repoVars, fetchVars, genVars, selectVars,
                  commitVars, result, stderr, endVars >>

\* AskConfirm going on to the signing question after the answer no
AskConfirm_NoReturn ==
  /\ pc = "confirm"
  /\ choiceStr' = Null
  /\ manualMessage' = Null
  /\ IF commitMessage = ""
     THEN /\ pc' = "rlClose"
          /\ UNCHANGED << confirmCommit, result, asked >>
          /\ prompt' = ""
     ELSE /\ asked' = TRUE
          /\ prompt' = "confirm"
          /\ \E a \in YesNoAnswers :
               /\ confirmCommit' = <<a>>
               /\ IF IsYes(a)
                  THEN pc' = "sign" /\ UNCHANGED result
                  ELSE pc' = "sign" /\ result' = "Cancelled"
  /\ UNCHANGED << apiKey, repoVars, fetchVars, genVars, commitMessage, useGpg,
                  useManual, signCommitChoice, commitVars, stderr, endVars >>

\* if (commitMessage): "continue with commit? (y/n)"
AskConfirm ==
  /\ pc = "confirm"
  /\ choiceStr' = Null
  /\ manualMessage' = Null
  /\ IF commitMessage = ""
     THEN /\ pc' = "rlClose"
          /\ UNCHANGED << confirmCommit, result, asked >>
          /\ prompt' = ""
     ELSE /\ asked' = TRUE
          /\ prompt' = "confirm"
          /\ \E a \in YesNoAnswers :
               /\ confirmCommit' = <<a>>
               /\ IF IsYes(a)
                  THEN pc' = "sign" /\ UNCHANGED result
                  ELSE pc' = "rlClose" /\ result' = "Cancelled"
  /\ UNCHANGED << apiKey, repoVars, fetchVars, genVars, commitMessage, useGpg,
                  useManual, signCommitChoice, commitVars, stderr, endVars >>

\* AskSign, were the signing question left out and no signature the rule
AskSign_NoQuestion ==
  /\ pc = "sign"
  /\ prompt' = ""
  /\ useGpg' = FALSE
  /\ UNCHANGED << signCommitChoice, asked >>
  /\ message' = commitMessage
  /\ useGpgSign' = useGpg'
  /\ commitCalls' = commitCalls + 1
  /\ pc' = "commitChanges"
  /\ UNCHANGED << apiKey, repoVars, fetchVars, genVars, commitMessage,
                  useManual, choiceStr, manualMessage, confirmCommit, error,
                  gitCommitLog, result, stderr, endVars >>

\* "sign with GPG? (y/n, default n)", then commitChanges(commitMessage, useGpg)
AskSign ==
  /\ pc = "sign"
  /\ asked' = TRUE
  /\ prompt' = "sign"
  /\ \E a \in YesNoAnswers :
       /\ signCommitChoice' = <<a>>
       /\ useGpg' = IsYes(a)
  /\ message' = commitMessage
  /\ useGpgSign' = useGpg'
  /\ commitCalls' = commitCalls + 1
  /\ pc' = "commitChanges"
  /\ UNCHANGED << apiKey, repoVars, fetchVars, genVars, commitMessage,
                  useManual, choiceStr, manualMessage, confirmCommit, error,
                  gitCommitLog, result, stderr, endVars >>

\* the catch of commitChanges, were the signing phrases looked for first
ClassifyCommitError_GpgFirst(e, sign) ==
  LET errorMessage == ToLowerCase(e)
  IN  IF /\ sign
         /\ \/ Includes(errorMessage, "gpg failed to sign the data")
            \/ Includes(errorMessage, "no default secret key")
      THEN [result |-> "SigningFailed", diag |-> "E_GpgSign"]
      ELSE IF \/ Includes(errorMessage, "nothing to commit")
              \/ Includes(errorMessage, "no changes added to commit")
              \/ Includes(errorMessage, "changes not staged for commit")
      THEN [result |-> "NothingToCommit", diag |-> "W_NothingToCommit"]
      ELSE [result |-> "OtherFailure", diag |-> "E_GitCommit"]

(***************************************************************************)
(* CommitExecutor.                                                         *)
(***************************************************************************)
\* the catch of commitChanges: how a failure text is classified, and the
\* diagnostic written for it
ClassifyCommitError(e, sign) ==
  LET errorMessage == ToLowerCase(e)
  IN  IF \/ Includes(errorMessage, "nothing to commit")
         \/ Includes(errorMessage, "no changes added to commit")
         \/ Includes(errorMessage, "changes not staged for commit")
      THEN [result |-> "NothingToCommit", diag |-> "W_NothingToCommit"]
      ELSE IF /\ sign
              /\ \/ Includes(errorMessage, "gpg failed to sign the data")
                 \/ Includes(errorMessage, "no default secret key")
      THEN [result |-> "SigningFailed", diag |-> "E_GpgSign"]
      ELSE [result |-> "OtherFailure", diag |-> "E_GitCommit"]

\* the classification of every failure text the model draws
CommitErrorClass ==
  [e \in GitErrors, sign \in BOOLEAN |-> ClassifyCommitError(e, sign)]

\* NothingStaged, were the re-check never to find the index empty
NothingStaged_Never(files, d) == FALSE

\* the re-check before the commit: nothing is listed as staged and the staged
\* diff is empty
NothingStaged(files, d) == files = {} /\ d = ""

\* the repository holds no staged change
RepoClean == staged = {} /\ stagedDiff = ""

\* commitChanges, first part: git.status() and, when it lists no staged
\* file, git.diff(["--cached"]); either may fail with some text
CommitChangesCheck ==
  /\ pc = "commitChanges"
  /\ \E o \in {"returns"} \cup GitErrors :
       IF o = "returns"
       THEN /\ error' = Null
            /\ IF NothingStaged(staged, stagedDiff)
               THEN /\ stderr' = Append(stderr, "W_NothingStaged")
                    /\ result' = "NothingToCommit"
                    /\ pc' = "commitReturn"
               ELSE /\ pc' = "gitCommit"
                    /\ UNCHANGED << stderr, result >>
       ELSE /\ error' = <<o>>
            /\ stderr' = Append(stderr, CommitErrorClass[o, useGpgSign].diag)
            /\ result' = CommitErrorClass[o, useGpgSign].result
            /\ pc' = "commitReturn"
  /\ UNCHANGED << apiKey, repoVars, fetchVars, genVars, selectVars, message,
                  useGpgSign, gitCommitLog, commitCalls, asked, endVars >>
  /\ prompt' = ""

\* commitOptions that never ask for a signature
CommitOptions_NeverSign(sign) == <<>>

\* ["-S"] when signing was asked for
CommitOptions(sign) == IF sign THEN <<"-S">> ELSE <<>>

\* commitChanges, second part: git.commit(message, commitOptions) succeeds,
\* which takes the staged changes into the commit, or fails with some text
GitCommit ==
  /\ pc = "gitCommit"
  /\ \E o \in {"succeeds"} \cup GitErrors :
       /\ o = "succeeds" => ~RepoClean
       /\ gitCommitLog' = Append(gitCommitLog,
            [message |-> message, options |-> CommitOptions(useGpgSign),
             ok |-> (o = "succeeds")])
       /\ IF o = "succeeds"
          THEN /\ staged' = {}
               /\ stagedDiff' = ""
               /\ result' = "Success"
               /\ UNCHANGED << error, stderr >>
          ELSE /\ error' = <<o>>
               /\ stderr' = Append(stderr, CommitErrorClass[o, useGpgSign].diag)
               /\ result' = CommitErrorClass[o, useGpgSign].result
               /\ UNCHANGED repoVars
  /\ pc' = "commitReturn"
  /\ UNCHANGED << apiKey, fetchVars, genVars, selectVars, message, useGpgSign,
                  commitCalls, asked, endVars >>
  /\ prompt' = ""

\* the return from commitChanges, were a failed commit tried again
SelectAndCommitReturn_Retry ==
  /\ pc = "commitReturn"
  /\ pc' = IF result \in {"SigningFailed", "OtherFailure"}
           THEN "commitChanges" ELSE "rlClose"
  /\ UNCHANGED << apiKey, repoVars, fetchVars, genVars, selectVars,
                  commitVars, result, stderr, asked, endVars >>
  /\ prompt' = ""

\* commitChanges has returned to selectAndCommit, which returns to main
SelectAndCommitReturn ==
  /\ pc = "commitReturn"
  /\ pc' = "rlClose"
  /\ UNCHANGED << apiKey, repoVars, fetchVars, genVars, selectVars,
                  commitVars, result, stderr, asked, endVars >>
  /\ prompt' = ""

(***************************************************************************)
(* The end of main, and the environment.                                   *)
(***************************************************************************)
\* main: rl.close(); nothing is pending and the process ends with code 0
RlClose ==
  /\ pc = "rlClose"
  /\ rlClosed' = rlClosed + 1
  /\ exitCode' = <<0>>
  /\ pc' = "done"
  /\ UNCHANGED << apiKey, repoVars, fetchVars, genVars, selectVars,
                  commitVars, result, stderr, asked >>
  /\ prompt' = ""

\* the top-level catch, were it to exit without closing the input channel
TopLevelCatch_NoClose ==
  /\ pc = "threw"
  /\ stderr' = Append(stderr, "E_TopLevel")
  /\ exitCode' = <<1>>
  /\ pc' = "exited"
  /\ UNCHANGED << apiKey, repoVars, fetchVars, genVars, selectVars,
                  commitVars, result, asked, rlClosed >>
  /\ prompt' = ""

\* main().catch: the error is printed, rl.close(), process.exit(1)
TopLevelCatch ==
  /\ pc = "threw"
  /\ stderr' = Append(stderr, "E_TopLevel")
  /\ rlClosed' = rlClosed + 1
  /\ exitCode' = <<1>>
  /\ pc' = "exited"
  /\ UNCHANGED << apiKey, repoVars, fetchVars, genVars, selectVars,
                  commitVars, result, asked >>
  /\ prompt' = ""

\* outside the program, while it waits: the staged changes are unstaged
Unstage ==
  /\ pc \in {"confirm", "sign", "gitCommit"}
  /\ ~RepoClean
  /\ staged' = {}
  /\ stagedDiff' = ""
  /\ UNCHANGED << pc, apiKey, fetchVars, genVars, selectVars, commitVars,
                  result, stderr, asked, endVars >>
  /\ prompt' = ""

Next ==
  \/ LoadModule
  \/ GetStagedChanges
  \/ MainDiff
  \/ GenerateCommitMessage
  \/ SelectAndCommit
  \/ AskUseManual
  \/ AskManualEmpty
  \/ AskChoice
  \/ AskManualMenu
  \/ AskFailsInMenu
  \/ AskFails
  \/ AskConfirm
  \/ AskSign
  \/ CommitChangesCheck
  \/ GitCommit
  \/ SelectAndCommitReturn
  \/ RlClose
  \/ TopLevelCatch
  \/ Unstage

\* one run of the program
Spec == Init /\ [][Next]_vars

(***************************************************************************)
(* CommitExecutor on its own: commitChanges is called with some request in *)
(* some repository state, and called again with the same request.          *)
(***************************************************************************)
CommitMessages == { "fix(b): y", "wip" }

InitCommit ==
  /\ pc = "commitChanges"
  /\ apiKey = TRUE
  /\ staged \in SUBSET Files
  /\ stagedDiff \in {"", DiffText}
  /\ message \in CommitMessages
  /\ useGpgSign \in BOOLEAN
  /\ commitCalls = 1
  /\ Fresh

\* the caller calls commitChanges again with the same request
CallAgain ==
  /\ pc = "commitReturn"
  /\ commitCalls < MaxCalls
  /\ commitCalls' = commitCalls + 1
  /\ pc' = "commitChanges"
  /\ UNCHANGED << apiKey, repoVars, fetchVars, genVars, selectVars, message,
                  useGpgSign, error, gitCommitLog, result, stderr, asked,
                  endVars >>
  /\ prompt' = ""

NextCommit == CommitChangesCheck \/ GitCommit \/ CallAgain

SpecCommit == InitCommit /\ [][NextCommit]_vars
(***************************************************************************)
(* The claims.  What a claim says of a string is stated here character by  *)
(* character, apart from the string methods of the program.                *)
(***************************************************************************)
HasChar(s, c) == \E i \in 1..Len(s) : CharAt(s, i) = c

\* the string opens with three backquotes
FenceAtStart(s) == Len(s) >= 3 /\ \A i \in 1..3 : CharAt(s, i) = "~"

\* the string closes with three backquotes
FenceAtEnd(s) == Len(s) >= 3 /\ \A i \in (Len(s) - 2)..Len(s) : CharAt(s, i) = "~"

\* the line contains ':', '(' and ')' and is not fenced
PassesFormat(s) ==
  /\ HasChar(s, ":") /\ HasChar(s, "(") /\ HasChar(s, ")")
  /\ ~FenceAtStart(s) /\ ~FenceAtEnd(s)

\* the line reads type(scope): subject and is not fenced
HasCommitShape(s) ==
  /\ \E i, j \in 1..Len(s) :
       /\ 1 < i /\ i + 1 < j /\ j + 2 < Len(s)
       /\ CharAt(s, i) = "(" /\ CharAt(s, j) = ")"
       /\ CharAt(s, j + 1) = ":" /\ CharAt(s, j + 2) = " "
  /\ ~FenceAtStart(s) /\ ~FenceAtEnd(s)

\* the string holds nothing but white space
AllBlank(s) == \A i \in 1..Len(s) : CharAt(s, i) \in {" ", "\t", "\r", "\n"}

\* the operator typed y or Y
AnsweredYes(v) == v \in { <<"y">>, <<"Y">> }

Elements(q) == { q[i] : i \in 1..Len(q) }

\* C1: the commit step is entered only after the confirmation prompt was
\* answered yes for a non-empty chosen message, which is the message passed
\* on; and a run that ends normally after a yes has entered the commit step.
C1_CommitIffConfirmed ==
  /\ pc \in {"commitChanges", "gitCommit", "commitReturn"} => commitCalls > 0
  /\ commitCalls > 0 =>
       /\ AnsweredYes(confirmCommit)
       /\ commitMessage # ""
       /\ message = commitMessage
  /\ gitCommitLog # <<>> => commitCalls > 0
  /\ pc = "done" => (commitCalls > 0 <=> AnsweredYes(confirmCommit))

C1_Witness ==
  /\ pc = "commitChanges" /\ commitCalls = 1
  /\ confirmCommit = <<"Y">> /\ message = "fix(b): y"

\* C2: when the staged diff came back empty, or was not retrieved, the run
\* goes to its end without a generation request, without a prompt and
\* without the commit step.
C2_NoDiffNoWork ==
  (apiKey /\ pc \notin {"load", "main"} /\ diffOutput \in {Null, <<"">>}) =>
    /\ pc \in {"mainDiff", "rlClose", "done"}
    /\ genCalls = 0
    /\ ~asked
    /\ commitCalls = 0
    /\ gitCommitLog = <<>>

C2_Witness ==
  /\ pc = "done" /\ diffOutput = <<"">> /\ stderr = <<>> /\ exitCode = <<0>>

\* C3: a call of commitChanges that finds nothing staged (no staged file, an
\* empty staged diff) returns nothing-to-commit and does not invoke git.commit,
\* whatever the request; so no git.commit follows one that succeeded.
C3_NothingStagedNoCommit ==
  /\ [][(pc = "commitChanges" /\ staged = {} /\ stagedDiff = "" /\ error' = Null)
          => /\ gitCommitLog' = gitCommitLog
             /\ result' = "NothingToCommit"
             /\ pc' = "commitReturn"
             /\ UNCHANGED << staged, stagedDiff >>]_vars
  /\ [](\A i \in 1..Len(gitCommitLog) : gitCommitLog[i].ok => i = Len(gitCommitLog))

C3_Witness ==
  /\ commitCalls = 2 /\ pc = "commitReturn"
  /\ Len(gitCommitLog) = 1 /\ gitCommitLog[1].ok
  /\ result = "NothingToCommit"
  /\ stderr = <<"W_NothingStaged">>

\* C4: when no line of a response passes the format filter and the response
\* has a non-blank line, generateCommitMessage returns rawLines as they are.
C4_FallbackLaw ==
  (/\ pc = "selectAndCommit"
   /\ rawText # Null
   /\ rawLines # <<>>
   /\ \A i \in 1..Len(rawLines) : ~PassesFormat(rawLines[i])) =>
    /\ validSuggestions = <<>>
    /\ suggestions = <<rawLines>>

C4_Witness ==
  /\ pc = "selectAndCommit"
  /\ rawText = <<"fix(b): y~~~\n  \nhi">>
  /\ suggestions = << <<"fix(b): y~~~", "hi">> >>

\* C5: a response of exactly 3 lines of the type(scope): subject shape is
\* returned as those 3 lines in their order; and whenever a line passes the
\* format filter, the result is the lines of rawLines that pass it, in order.
C5_ValidLinesInOrder ==
  (pc = "selectAndCommit" /\ rawText # Null) =>
    /\ LET ls == SplitLines(rawText[1])
       IN  (Len(ls) = 3 /\ \A i \in 1..3 : HasCommitShape(Trim(ls[i]))) =>
             suggestions = << [i \in 1..3 |-> Trim(ls[i])] >>
    /\ (\E i \in 1..Len(rawLines) : PassesFormat(rawLines[i])) =>
         suggestions = << SelectSeq(rawLines, PassesFormat) >>

C5_Witness ==
  /\ pc = "selectAndCommit"
  /\ rawText = <<"docs(c): z\n fix(b): y\r\nfeat(a): x">>
  /\ suggestions = << <<"docs(c): z", "fix(b): y", "feat(a): x">> >>

\* C6 as claimed: every element of a returned candidate sequence contains
\* ':', '(' and ')' and is not fenced by triple backquotes.
C6_AllReturnedPassFormat ==
  (pc = "selectAndCommit" /\ suggestions # Null) =>
    \A e \in Elements(suggestions[1]) : PassesFormat(e)

\* C6 as amended: every element of a returned candidate sequence passes the
\* format whenever some raw line passes it; when none does, the raw lines are
\* returned unfiltered with the format-mismatch warning, and none passes.
C6_ReturnedPassFormatUnlessFallback ==
  suggestions # Null =>
    /\ suggestions[1] # <<>>
    /\ IF "W_FormatMismatch" \in Elements(stderr)
       THEN \A e \in Elements(suggestions[1]) : ~PassesFormat(e)
       ELSE \A e \in Elements(suggestions[1]) : PassesFormat(e)
    /\ pc = "selectAndCommit" =>
         ("W_FormatMismatch" \in Elements(stderr)
            <=> \A e \in Elements(rawLines) : ~PassesFormat(e))

C6_Witness ==
  /\ pc = "selectAndCommit"
  /\ rawLines = <<"fix(b): y~~~", "feat(a): x", "hi">>
  /\ suggestions = << <<"feat(a): x">> >>

\* C7: generateCommitMessage makes one request and no more; it never raises;
\* a failed request, an empty response or a response of blank lines gives
\* null, and selectAndCommit then opens with the manual-entry question.
C7_OneRequestNullOnFailure ==
  /\ [](genCalls <= 1)
  /\ [](pc = "selectAndCommit" =>
          /\ genCalls = 1
          /\ (rawText = Null \/ AllBlank(rawText[1])) => suggestions = Null)
  /\ [][pc = "generateCommitMessage" => pc' = "selectAndCommit"]_vars
  /\ [][(pc = "selectAndCommit" /\ suggestions = Null)
          => (pc' = "askUseManual" /\ ~asked')]_vars

C7_Witness ==
  /\ pc = "askUseManual" /\ genCalls = 1 /\ suggestions = Null
  /\ stderr = <<"E_GeminiError">>

\* C8: the exit code is non-zero only when the credential is missing or an
\* exception reached the top level; a run that ended otherwise, whatever its
\* outcome, ended with exit code 0, and no in-flow outcome raises.
C8_ExitCodes ==
  /\ exitCode = <<1>> => (~apiKey \/ "E_TopLevel" \in Elements(stderr))
  /\ (pc \in {"done", "exited"} /\ apiKey /\ "E_TopLevel" \notin Elements(stderr))
       => exitCode = <<0>>
  /\ (apiKey /\ pc \notin {"load", "main"} /\ ~Truthy(diff))
       => (pc \notin {"threw", "exited"} /\ exitCode \in {Null, <<0>>})
  /\ result \in {"Cancelled", "NothingToCommit", "SigningFailed",
                 "OtherFailure", "Success"}
       => (pc \notin {"threw", "exited"} /\ exitCode \in {Null, <<0>>})

C8_Witness ==
  /\ pc = "done" /\ result = "SigningFailed" /\ exitCode = <<0>>

\* C9 as claimed: a blank manual entry never cancels; the operator gets
\* another attempt, in the menu branch and in the empty-candidates branch.
C9_BlankManualNeverCancels ==
  [][(/\ pc \in {"askManualMenu", "askManualEmpty"}
      /\ manualMessage' # Null
      /\ AllBlank(manualMessage'[1]))
       => (result' # "Cancelled" /\ pc' \in {"askChoice", "askManualEmpty"})]_vars

\* C9 as amended: a blank manual entry made from the numbered menu does not
\* cancel and leads back to the menu prompt with no message chosen; a blank
\* manual entry made after the empty-candidates question cancels the run, as
\* declining manual entry at that question does.
C9_BlankManualByBranch ==
  /\ [][(pc = "askManualMenu" /\ manualMessage' # Null /\ AllBlank(manualMessage'[1]))
          => (pc' = "askChoice" /\ result' = "none" /\ commitMessage' = "")]_vars
  /\ [][(pc = "askManualEmpty" /\ manualMessage' # Null /\ AllBlank(manualMessage'[1]))
          => (pc' = "rlClose" /\ result' = "Cancelled" /\ commitMessage' = "")]_vars
  /\ [][(pc = "askUseManual" /\ useManual' # Null /\ ~AnsweredYes(useManual'))
          => (pc' = "rlClose" /\ result' = "Cancelled")]_vars

C9_Witness ==
  /\ pc = "askChoice" /\ manualMessage = <<"  ">> /\ result = "none"

\* the input, white space around it apart, is a decimal integer from lo to hi
IsIntegerIn(s, lo, hi) ==
  LET t == Trim(s)
  IN  /\ Len(t) > 0
      /\ \A i \in 1..Len(t) : HasChar(DecimalDigits, CharAt(t, i))
      /\ DigitsPrefix(t, 0) >= lo
      /\ DigitsPrefix(t, 0) <= hi

\* C10: with N candidates, a menu input that is not an integer in 1..N+2
\* leaves the chosen message unset and the menu is prompted again.
C10_InvalidInputReprompts ==
  [][(/\ pc = "askChoice"
      /\ choiceStr' # Null
      /\ ~IsIntegerIn(choiceStr'[1], 1, Len(suggestions[1]) + 2))
       => (pc' = "askChoice" /\ commitMessage' = "" /\ result' = "none")]_vars

\* C11: the message handed to the commit step is the candidate at the 1-based
\* index the operator chose (candidate k for input k, in generation order) or
\* the trimmed manual entry, and it is not altered between the selection and
\* the commit request or git.commit.
C11_CommittedMessageIsSelection ==
  /\ [](pc = "confirm" /\ commitMessage # ""
          => \/ /\ manualMessage # Null
                /\ commitMessage = Trim(manualMessage[1])
             \/ /\ manualMessage = Null
                /\ choiceStr # Null
                /\ suggestions # Null
                /\ commitMessage \in Elements(suggestions[1])
                /\ \A k \in 1..Len(suggestions[1]) :
                     IsIntegerIn(choiceStr[1], k, k)
                       => commitMessage = suggestions[1][k])
  /\ [][(pc \in {"confirm", "sign"}) => (commitMessage' = commitMessage)]_vars
  /\ [][commitCalls' # commitCalls => (message' = commitMessage)]_vars
  /\ [][commitCalls > 0 => (message' = message)]_vars
  /\ [](\A i \in 1..Len(gitCommitLog) : gitCommitLog[i].message = message)

C11_Witness ==
  /\ Len(gitCommitLog) = 1
  /\ suggestions # Null
  /\ Len(suggestions[1]) >= 2
  /\ gitCommitLog[1].message = suggestions[1][2]
  /\ suggestions[1][1] # suggestions[1][2]

\* C12 as stated: the sign flag is true exactly when the signing answer is the
\* lower-case letter y.
C12_SignOnlyOnLowerCaseY ==
  signCommitChoice # Null => (useGpgSign <=> signCommitChoice = <<"y">>)

\* C12: the signing question is put only after the confirmation was answered
\* yes; the sign flag is true exactly when the signing answer is y or Y (any
\* other answer, the empty one included, means no); git.commit gets the
\* signing option exactly when the sign flag is true.
C12_SignOnlyOnYes ==
  /\ (pc = "sign" \/ signCommitChoice # Null) => AnsweredYes(confirmCommit)
  /\ signCommitChoice = Null => (~useGpg /\ commitCalls = 0)
  /\ signCommitChoice # Null
       => /\ useGpg <=> signCommitChoice \in { <<"y">>, <<"Y">> }
          /\ useGpgSign = useGpg
  /\ \A i \in 1..Len(gitCommitLog) :
       /\ gitCommitLog[i].options \in { <<>>, <<"-S">> }
       /\ gitCommitLog[i].options = <<"-S">> <=> useGpgSign

C12_Witness ==
  /\ Len(gitCommitLog) = 1
  /\ signCommitChoice = <<"Y">>
  /\ gitCommitLog[1].options = <<"-S">>

\* the failure texts that hold a nothing-to-commit phrase, in any letter case
NothingPhraseTexts ==
  { "nothing to commit, working tree clean",
    "no changes added to commit",
    "Changes not staged for commit:",
    "gpg failed to sign the data; nothing to commit" }

\* the failure texts that hold a signing-failure phrase
SigningPhraseTexts ==
  { "error: gpg failed to sign the data",
    "gpg: no default secret key",
    "gpg failed to sign the data; nothing to commit" }

\* the outcome the precedence rule gives a failure text
OutcomeByPrecedence(e, sign) ==
  IF e \in NothingPhraseTexts THEN "NothingToCommit"
  ELSE IF e \in SigningPhraseTexts /\ sign THEN "SigningFailed"
  ELSE "OtherFailure"

\* the one diagnostic that goes with an outcome
DiagnosticOf(outcome) ==
  CASE outcome = "NothingToCommit" -> "W_NothingToCommit"
    [] outcome = "SigningFailed"   -> "E_GpgSign"
    [] OTHER                       -> "E_GitCommit"

\* C13: a failure caught in commitChanges gets exactly one of three outcomes, by
\* precedence: a nothing-to-commit phrase gives NothingToCommit whether or not
\* signing was asked for; otherwise a signing phrase gives SigningFailed only
\* when signing was asked for; everything else is OtherFailure. The failure is
\* reported once, git.commit is not tried again and the failure does not leave
\* commitChanges.
C13_FailureClassifiedByPrecedence ==
  error # Null
    => /\ result = OutcomeByPrecedence(error[1], useGpgSign)
       /\ stderr # <<>>
       /\ stderr[Len(stderr)] = DiagnosticOf(result)
       /\ \A i \in 1..(Len(stderr) - 1) :
            stderr[i] \notin {"W_NothingToCommit", "E_GpgSign", "E_GitCommit"}
       /\ Len(gitCommitLog) <= 1
       /\ pc \in {"commitReturn", "rlClose", "done"}
       /\ exitCode \in {Null, <<0>>}

C13_Witness ==
  /\ error = <<"gpg failed to sign the data; nothing to commit">>
  /\ useGpgSign
  /\ result = "NothingToCommit"
  /\ Len(gitCommitLog) = 1
  /\ pc = "done"

\* C14: Cancelled and Done are terminal. Menu input N+2, declining manual entry
\* when there are no candidates and the answer no at the confirmation each
\* cancel; once cancelled, no prompt is put, no commit request is made and the
\* commit step is never entered; once the commit request is made, no prompt is
\* put and no second request is made.
C14_CancelledAndDoneTerminal ==
  /\ [](result = "Cancelled"
          => /\ pc \in {"rlClose", "done"}
             /\ commitCalls = 0
             /\ gitCommitLog = <<>>)
  /\ [][result = "Cancelled"
          => (result' = "Cancelled" /\ prompt' = "" /\ commitCalls' = 0)]_vars
  /\ [][(/\ prompt' = "choice"
         /\ choiceStr' # Null
         /\ IsIntegerIn(choiceStr'[1], Len(suggestions[1]) + 2,
                        Len(suggestions[1]) + 2))
          => (result' = "Cancelled")]_vars
  /\ [][(prompt' = "useManual" /\ useManual' # Null /\ ~AnsweredYes(useManual'))
          => (result' = "Cancelled")]_vars
  /\ [][(prompt' = "confirm" /\ confirmCommit' # Null
           /\ ~AnsweredYes(confirmCommit'))
          => (result' = "Cancelled")]_vars
  /\ [][commitCalls > 0
          => (prompt' = "" /\ commitCalls' = commitCalls)]_vars

C14_Witness ==
  /\ pc = "done"
  /\ result = "Cancelled"
  /\ confirmCommit = <<"n">>
  /\ commitMessage # ""
  /\ gitCommitLog = <<>>

\* the number of external calls a step makes: the diff retrieval, the
\* generation request, an operator read, the status check and git.commit
CallsInStep ==
  (IF pc = "main" /\ pc' # pc THEN 1 ELSE 0)
  + (IF genCalls' # genCalls THEN 1 ELSE 0)
  + (IF prompt' # "" THEN 1 ELSE 0)
  + (IF pc = "commitChanges" /\ pc' # pc THEN 1 ELSE 0)
  + (IF gitCommitLog' # gitCommitLog THEN 1 ELSE 0)

\* C15: the external calls come in a fixed order, each gating the next: the
\* diff is retrieved before anything else; the generation request is made only
\* after a non-empty diff came back and before any prompt; the commit step is
\* entered only after the selection ended with a confirmed message; and no
\* step makes two calls.
C15_CallsInOrder ==
  /\ [](pc \in {"load", "main"}
          => (genCalls = 0 /\ ~asked /\ commitCalls = 0 /\ gitCommitLog = <<>>))
  /\ []((pc = "generateCommitMessage" \/ genCalls > 0)
          => (diffOutput # Null /\ diffOutput[1] # "" /\ diff = diffOutput))
  /\ [](pc = "generateCommitMessage" => (genCalls = 0 /\ ~asked))
  /\ [](asked => genCalls = 1)
  /\ []((commitCalls > 0 \/ gitCommitLog # <<>>)
          => /\ asked
             /\ AnsweredYes(confirmCommit)
             /\ commitMessage # ""
             /\ pc \in {"commitChanges", "gitCommit", "commitReturn",
                        "rlClose", "done"})
  /\ [][CallsInStep <= 1]_vars

C15_Witness ==
  /\ pc = "gitCommit"
  /\ diffOutput = <<DiffText>>
  /\ genCalls = 1
  /\ asked
  /\ commitCalls = 1
  /\ gitCommitLog = <<>>

\* C16: when the diff retrieval fails, because the directory is no repository
\* or for any other reason, the error is reported once, the retrieval is not
\* made again, and the run goes straight to its end: nothing is generated,
\* nothing asked, nothing committed, and the input channel is closed.
C16_DiffFailureReportedOnce ==
  /\ []((apiKey /\ pc \notin {"load", "main"} /\ diffOutput = Null)
          => /\ stderr \in { <<"E_NotRepo">>, <<"E_DiffError">> }
             /\ pc \in {"mainDiff", "rlClose", "done"}
             /\ genCalls = 0 /\ ~asked /\ commitCalls = 0
             /\ pc = "done" => (rlClosed = 1 /\ exitCode = <<0>>))
  /\ [][(pc = "main" /\ diffOutput' = Null)
          => (Len(stderr') = Len(stderr) + 1 /\ pc' = "mainDiff")]_vars
  /\ [][(pc = "mainDiff" /\ diffOutput = Null) => (pc' = "rlClose")]_vars
  /\ [][pc = "rlClose" => (pc' = "done")]_vars
  /\ [][(pc \notin {"load", "main"}) => (pc' # "main")]_vars

C16_Witness ==
  /\ pc = "done"
  /\ apiKey
  /\ diffOutput = Null
  /\ stderr = <<"E_DiffError">>
  /\ rlClosed = 1

\* the state of the selection state machine a position of the program is in
SelState(p) ==
  CASE p \in {"selectAndCommit", "askUseManual"}  -> "Presenting"
    [] p = "askChoice"                            -> "ChoosingNumber"
    [] p \in {"askManualEmpty", "askManualMenu"}  -> "ManualEntry"
    [] p = "confirm"                              -> "Confirming"
    [] p = "sign"                                 -> "SigningChoice"
    [] OTHER                                      -> "Outside"

\* the prompt a state of the selection state machine puts to the operator
PromptOf(state) ==
  CASE state = "Presenting"     -> "useManual"
    [] state = "ChoosingNumber" -> "choice"
    [] state = "ManualEntry"    -> "manual"
    [] state = "Confirming"     -> "confirm"
    [] state = "SigningChoice"  -> "sign"
    [] OTHER                    -> ""

\* C17 as stated: every transition between two of the five states is made
\* after a read in the state being left.
C17_EveryTransitionAfterOneRead ==
  [][(/\ SelState(pc) # "Outside"
      /\ SelState(pc') # "Outside"
      /\ SelState(pc') # SelState(pc))
       => (prompt' # "")]_vars

\* C17: every step that leaves ChoosingNumber, ManualEntry, Confirming or
\* SigningChoice, or leaves Presenting when there are no candidates, is one
\* operator read, of the prompt of the state being left; every read is of the
\* prompt of the state the program is in; with candidates, Presenting shows
\* the menu and goes on to ChoosingNumber without a read.
C17_OneReadPerTransition ==
  /\ [][(/\ SelState(pc) # "Outside"
         /\ pc # "selectAndCommit"
         /\ SelState(pc') # SelState(pc))
          => (prompt' = PromptOf(SelState(pc)))]_vars
  /\ [][prompt' # "" => (prompt' = PromptOf(SelState(pc)))]_vars
  /\ [][pc = "selectAndCommit"
          => /\ prompt' = ""
             /\ pc' = IF suggestions # Null /\ Len(suggestions[1]) > 0
                      THEN "askChoice" ELSE "askUseManual"]_vars

C17_Witness ==
  /\ pc = "confirm"
  /\ prompt = "manual"
  /\ suggestions # Null
  /\ choiceStr # Null

\* C18: git.commit is invoked at most once in a run, whatever the operator
\* answers and however the commit ends: a failed commit is not tried again,
\* and commitChanges is called at most once.
C18_AtMostOneCommit ==
  /\ Len(gitCommitLog) <= 1
  /\ commitCalls <= 1
  /\ (gitCommitLog # <<>> /\ pc \in {"commitReturn", "rlClose", "done"})
       => (gitCommitLog[1].ok <=> result = "Success")

C18_Witness ==
  /\ pc = "done"
  /\ Len(gitCommitLog) = 1
  /\ ~gitCommitLog[1].ok
  /\ result = "OtherFailure"

(***************************************************************************)
(* A run in which every awaited call comes back, so that the program keeps  *)
(* taking steps, and in which the operator, asked for a menu choice again   *)
(* and again, at some turn picks a candidate or cancels.                    *)
(***************************************************************************)
\* a turn of the menu loop that leaves the loop
LeaveMenu == AskChoice /\ pc' \in {"confirm", "rlClose"}

FairSpec == Spec /\ WF_vars(Next) /\ SF_vars(LeaveMenu)

\* C19: when every call returns and the operator at some turn leaves the menu
\* loop, the run ends; a run that went through the selection and ended
\* normally is Cancelled or has made its commit request (Done); and at the end
\* of every run that got as far as main the input channel has been closed
\* exactly once, be the end normal (commit made or failed, nothing staged,
\* cancelled) or the top-level catch.
C19_TerminatesClosingOnce ==
  /\ <>(pc \in {"done", "exited"})
  /\ [](rlClosed <= 1)
  /\ [](pc = "done" => (apiKey /\ rlClosed = 1 /\ exitCode = <<0>>))
  /\ []((pc = "exited" /\ apiKey) => (rlClosed = 1 /\ exitCode = <<1>>))
  /\ []((pc \notin {"done", "exited"}) => rlClosed = 0)
  /\ []((pc = "done" /\ genCalls = 1)
          => (result = "Cancelled" \/ commitCalls = 1))

C19_Witness ==
  /\ pc = "exited"
  /\ apiKey
  /\ asked
  /\ rlClosed = 1

====
